---------------------------- MODULE Spec2Model ----------------------------
(***************************************************************************)
(* Model of misc/index.js of dwarf-to-json: convertDwarfToJSON, the        *)
(* host-side bridge that copies a wasm binary into the module's linear     *)
(* memory, calls convert_dwarf, reads the 12-byte result descriptor and    *)
(* decodes the output bytes.                                               *)
(*                                                                         *)
(* One action per statement of convertDwarfToJSON (pc names the line that  *)
(* runs next).  alloc_mem, free_mem, convert_dwarf and memory are imports  *)
(* of ./dwarf_to_json (the compiled Rust library, not part of the          *)
(* JavaScript sources); they are modelled from the interface section of    *)
(* the specification.                                                      *)
(***************************************************************************)
EXTENDS Integers, Sequences, FiniteSets, TLC

(***************************************************************************)
(* Bounds of the model.                                                    *)
(***************************************************************************)
MaxInLen == 1       \* longest input (wasm.byteLength)
MaxOutLen == 1      \* longest output region the module produces
MaxCalls == 2       \* number of sequential calls of convertDwarfToJSON
PageSize == 8       \* bytes by which memory.buffer grows
MaxPages == 3       \* largest memory.buffer, in pages

(***************************************************************************)
(* Program constants.                                                      *)
(***************************************************************************)
DescriptorSize == 12    \* alloc_mem(12), new DataView(.., resultPtr, 12)
LenFieldOffset == 4     \* resultPtr + 4, getUint32(4, true)
PtrFieldOffset == 0     \* getUint32(0, true)
NULL == 0               \* the allocator's failure sentinel

\* The largest descriptor field the model writes: 2^31 - 1 (bytes FF FF FF
\* 7F), the largest integer TLC represents.  Fields with the top bit set
\* are outside the model.
BigField == (2 ^ 30 - 1) * 2 + 1
MemCap == PageSize * MaxPages
Addr == 0 .. (MemCap - 1)

Max(a, b) == IF a >= b THEN a ELSE b
PageCeil(n) == ((n + PageSize - 1) \div PageSize) * PageSize

(***************************************************************************)
(* Inputs of the model: the caller's bytes, and what the module may        *)
(* produce as output bytes.                                                *)
(***************************************************************************)
\* inputs: "", "A", "AB", ...
\* outputs: "", "{", "{{", ... and a lone continuation byte (not UTF-8)
Inputs == {[i \in 1 .. n |-> 64 + i] : n \in 0 .. MaxInLen}
Outputs == {[i \in 1 .. n |-> 123] : n \in 0 .. MaxOutLen} \cup {<<128>>}

VARIABLES
    pc,             \* the statement of convertDwarfToJSON that runs next
    wasm,           \* the argument of the current call (a byte sequence)
    memory,         \* contents of memory.buffer, by offset
    byteLength,     \* memory.buffer.byteLength
    live,           \* the allocator's live allocations: records [off, len]
    wasmPtr, resultPtr, outputPtr, outputLen,   \* the function's locals
    utf8Decoder,    \* the module-level decoder: "undefined" or "TextDecoder"
    output,         \* the text returned (code points), <<>> until then
    error,          \* the exception the current call ended with, or "none"
    calls,          \* number of calls started
    trace,          \* the current call's events, in order
    constructed,    \* how many times new TextDecoder ran
    trapped,        \* some call ended in a trap of the module
    ub              \* free_mem was called on an offset that was not live

vars == <<pc, wasm, memory, byteLength, live, wasmPtr, resultPtr, outputPtr,
          outputLen, utf8Decoder, output, error, calls, trace, constructed,
          trapped, ub>>

Ev(op, args, ok) == [op |-> op, args |-> args, ok |-> ok]
\* the event of a call into the module after which memory.buffer is the
\* buffer of len bytes
Grown(op, args, ok, len) == [op |-> op, args |-> args, ok |-> ok, buf |-> len]

\* wasm.byteLength, and the variant that never passes a zero length on
\* (wasm.byteLength || 1)
byteLengthOrOne(w) == IF Len(w) = 0 THEN 1 ELSE Len(w)
wasm_byteLength(w) == Len(w)

(***************************************************************************)
(* The allocator exported by the module.                                   *)
(***************************************************************************)
Extent(len) == Max(len, 1)
Overlaps(off, len, a) ==
    /\ off < a.off + Extent(a.len)
    /\ a.off < off + Extent(len)
Fits(off, size) ==
    /\ off >= 1
    /\ off + Extent(size) <= MemCap
    /\ \A a \in live : ~Overlaps(off, size, a)
IsLive(off) == \E a \in live : a.off = off
InLive(off, len) ==
    \E a \in live : a.off <= off /\ len <= a.off + a.len - off
\* an access of len bytes at off stays inside a live allocation (an access
\* of no bytes touches nothing)
Touches(off, len) == len = 0 \/ InLive(off, len)

\* memory.buffer, evaluated now.  The memory only grows, and growing
\* replaces the ArrayBuffer, so a buffer is identified by its byteLength.
\* cachedBuffer is the buffer taken once, when the module was loaded.
cachedBuffer == PageSize
memory_buffer == byteLength
\* the event of an access through new Uint8Array(memory.buffer, off, len)
\* or new DataView(memory.buffer, off, len)
View(op, off, len) ==
    [op |-> op, args |-> <<off, len>>, ok |-> Touches(off, len),
     buf |-> memory_buffer]

\* reserve(size): the failure sentinel, or the lowest free region that fits,
\* growing the buffer by whole pages when the region ends past it.
alloc_mem(size) ==
    {[ret |-> NULL, live |-> live, byteLength |-> byteLength]} \cup
    {[ret |-> off, live |-> live \cup {[off |-> off, len |-> size]},
      byteLength |-> Max(byteLength, PageCeil(off + Extent(size)))] :
        off \in {o \in Addr : Fits(o, size) /\
                              \A p \in 1 .. (o - 1) : ~Fits(p, size)}}

\* release(offset): frees the allocation that starts at offset.  Called on
\* an offset that is not live its behaviour is undefined: the allocator
\* either carries on or traps.
free_mem(off) ==
    IF IsLive(off)
    THEN {[live |-> {a \in live : a.off # off}, trap |-> FALSE, ub |-> FALSE]}
    ELSE {[live |-> live, trap |-> t, ub |-> TRUE] : t \in BOOLEAN}

(***************************************************************************)
(* Little-endian 32-bit fields and byte regions of memory.                 *)
(***************************************************************************)
LE32(v) == <<v % 256, (v \div 256) % 256, (v \div 65536) % 256,
             (v \div 16777216) % 256>>
\* DataView.getUint32(off, true), and the read without the littleEndian
\* argument (big-endian)
getUint32BE(mem, off) ==
    16777216 * mem[off] + 65536 * mem[off + 1] + 256 * mem[off + 2]
        + mem[off + 3]
getUint32(mem, off) ==
    mem[off] + 256 * mem[off + 1] + 65536 * mem[off + 2]
        + 16777216 * mem[off + 3]
\* TypedArray.prototype.set into a view at off, and the copy that lands one
\* byte further
StoreOffByOne(mem, off, bytes) ==
    [a \in Addr |-> IF a >= off + 1 /\ a < off + 1 + Len(bytes)
                    THEN bytes[a - off] ELSE mem[a]]
Store(mem, off, bytes) ==
    [a \in Addr |-> IF a >= off /\ a < off + Len(bytes)
                    THEN bytes[a - off + 1] ELSE mem[a]]
Load(mem, off, len) == [i \in 1 .. len |-> mem[off + i - 1]]
\* new Uint8Array(memory.buffer, off, len) / new DataView(...): RangeError
\* if off > byteLength or off + len > byteLength
ViewOK(off, len) == off <= byteLength /\ len <= byteLength - off

(***************************************************************************)
(* TextDecoder("utf-8").decode, not fatal: an ASCII byte is its code       *)
(* point, a two-byte sequence C2..DF 80..BF is decoded, any other byte     *)
(* becomes U+FFFD.                                                         *)
(***************************************************************************)
RECURSIVE decode(_)
decode(bytes) ==
    IF bytes = <<>> THEN <<>>
    ELSE LET b == Head(bytes) IN
         IF b < 128 THEN <<b>> \o decode(Tail(bytes))
         ELSE IF /\ b >= 194 /\ b <= 223 /\ Len(bytes) >= 2
                 /\ bytes[2] >= 128 /\ bytes[2] <= 191
              THEN <<(b - 192) * 64 + (bytes[2] - 128)>>
                       \o decode(Tail(Tail(bytes)))
              ELSE <<65533>> \o decode(Tail(bytes))

(***************************************************************************)
(* The conversion entry point exported by the module.  It traps, or        *)
(* allocates an output region, fills it and writes the region's offset     *)
(* and length into the descriptor, or writes a descriptor that names no    *)
(* allocation of its own, with the reserved bytes 8..11 overwritten.  It   *)
(* traps when the input or a descriptor field lies outside the memory.     *)
(***************************************************************************)
Reserved == <<255, 255, 255, 255>>
CorruptDescriptors(res) ==
    {<<1, BigField>>, <<res, DescriptorSize>>}

WriteDescriptor(mem, res, lenAt, ptr, len) ==
    Store(Store(mem, res, LE32(ptr)), lenAt, LE32(len))

convert_dwarf(inOff, inLen, res, lenAt) ==
    LET trap == [trap |-> TRUE, memory |-> memory, live |-> live,
                 byteLength |-> byteLength, events |-> <<>>]
    IN
    IF ~(ViewOK(inOff, inLen) /\ ViewOK(res, LenFieldOffset)
                              /\ ViewOK(lenAt, LenFieldOffset))
    THEN {trap}
    ELSE
    {trap} \cup
    UNION {{IF r.ret = NULL THEN trap
            ELSE [trap |-> FALSE,
                  memory |-> WriteDescriptor(Store(memory, r.ret, out), res,
                                             lenAt, r.ret, Len(out)),
                  live |-> r.live, byteLength |-> r.byteLength,
                  events |-> <<Ev("module_alloc", <<Len(out), r.ret>>,
                                  TRUE)>>] :
               r \in alloc_mem(Len(out))} : out \in Outputs} \cup
    {[trap |-> FALSE,
      memory |-> WriteDescriptor(Store(memory, res + 2 * LenFieldOffset,
                                       Reserved),
                                 res, lenAt, d[1], d[2]),
      live |-> live, byteLength |-> byteLength,
      events |-> <<Ev("module_corrupt", d, FALSE)>>] :
        d \in CorruptDescriptors(res)}

(***************************************************************************)
(* convertDwarfToJSON, statement by statement.                             *)
(***************************************************************************)
Init ==
    /\ pc = "idle"
    /\ wasm = <<>>
    /\ memory = [a \in Addr |-> 0]
    /\ byteLength = PageSize
    /\ live = {}
    /\ wasmPtr = NULL /\ resultPtr = NULL /\ outputPtr = NULL /\ outputLen = 0
    /\ utf8Decoder = "undefined"
    /\ output = <<>>
    /\ error = "none"
    /\ calls = 0
    /\ trace = <<>>
    /\ constructed = 0
    /\ trapped = FALSE
    /\ ub = FALSE

Throw(kind) ==
    /\ pc' = "thrown"
    /\ error' = kind
    /\ trapped' = (trapped \/ kind = "ModuleTrap")

InFlight == pc \notin {"idle", "returned", "thrown"}

\* Where a call in flight hands control back to the event loop, so that
\* another caller's call can start: convertDwarfToJSON is a plain function
\* (not async, no await, no yield) and every import it calls is
\* synchronous, so nowhere.  YieldsAfterInvoke is the function written with
\* an await on the entry point.
YieldsAfterInvoke(p) == p = "L25"
Yields(p) == FALSE

\* a caller invokes convertDwarfToJSON(wasm): each call is made by a caller
\* of its own, numbered by calls.  The single JavaScript thread runs it
\* when no call is in flight, or when the call in flight has yielded.
Call ==
    /\ ~InFlight \/ Yields(pc)
    /\ calls < MaxCalls
    /\ \E w \in Inputs : wasm' = w
    /\ pc' = "L21"
    /\ calls' = calls + 1
    /\ wasmPtr' = NULL /\ resultPtr' = NULL /\ outputPtr' = NULL
    /\ outputLen' = 0
    /\ output' = <<>>
    /\ error' = "none"
    /\ trace' = <<>>
    /\ UNCHANGED <<memory, byteLength, live, utf8Decoder, constructed,
                   trapped, ub>>

\* const wasmPtr = alloc_mem(wasm.byteLength);
AllocInput ==
    /\ pc = "L21"
    /\ \E r \in alloc_mem(wasm_byteLength(wasm)) :
        /\ wasmPtr' = r.ret
        /\ live' = r.live
        /\ byteLength' = r.byteLength
        /\ trace' = Append(trace,
                           Grown("alloc_mem", <<wasm_byteLength(wasm), r.ret>>,
                                 r.ret # NULL, r.byteLength))
    /\ pc' = "L22"
    /\ UNCHANGED <<wasm, memory, resultPtr, outputPtr, outputLen, utf8Decoder,
                   output, error, calls, constructed, trapped, ub>>

\* new Uint8Array(memory.buffer, wasmPtr, wasm.byteLength).set(new Uint8Array(wasm));
CopyInput ==
    /\ pc = "L22"
    /\ IF ViewOK(wasmPtr, wasm_byteLength(wasm))
       THEN /\ memory' = Store(memory, wasmPtr, wasm)
            /\ trace' = Append(trace,
                               View("write", wasmPtr, wasm_byteLength(wasm)))
            /\ pc' = "L23"
            /\ UNCHANGED <<error, trapped>>
       ELSE /\ Throw("RangeError")
            /\ UNCHANGED <<memory, trace>>
    /\ UNCHANGED <<wasm, byteLength, live, wasmPtr, resultPtr, outputPtr,
                   outputLen, utf8Decoder, output, calls, constructed, ub>>

\* const resultPtr = alloc_mem(12);
AllocResult ==
    /\ pc = "L23"
    /\ \E r \in alloc_mem(DescriptorSize) :
        /\ resultPtr' = r.ret
        /\ live' = r.live
        /\ byteLength' = r.byteLength
        /\ trace' = Append(trace,
                           Grown("alloc_mem", <<DescriptorSize, r.ret>>,
                                 r.ret # NULL, r.byteLength))
    /\ pc' = "L24"
    /\ UNCHANGED <<wasm, memory, wasmPtr, outputPtr, outputLen, utf8Decoder,
                   output, error, calls, constructed, trapped, ub>>

\* The call of the entry point stands in no try block: a trap leaves
\* convertDwarfToJSON as an exception, and the statements after line 24 do
\* not run.  AfterInvokeMasked is the call wrapped in try { } catch { }.
AfterInvokeMasked(trap) == pc' = "L25" /\ UNCHANGED <<error, trapped>>
AfterInvoke(trap) ==
    IF trap
    THEN Throw("ModuleTrap")
    ELSE pc' = "L25" /\ UNCHANGED <<error, trapped>>

\* the arguments of line 24, and the call that passes the descriptor's
\* offset twice
InvokeArgsSameOffset ==
    <<wasmPtr, wasm_byteLength(wasm), resultPtr, resultPtr>>
InvokeArgs ==
    <<wasmPtr, wasm_byteLength(wasm), resultPtr, resultPtr + LenFieldOffset>>

\* convert_dwarf(wasmPtr, wasm.byteLength, resultPtr, resultPtr + 4);
InvokeConvert ==
    /\ pc = "L24"
    /\ \E m \in convert_dwarf(InvokeArgs[1], InvokeArgs[2], InvokeArgs[3],
                              InvokeArgs[4]) :
        /\ trace' = Append(trace, Grown("convert_dwarf", InvokeArgs, ~m.trap,
                                        m.byteLength))
                        \o m.events
        /\ memory' = m.memory
        /\ live' = m.live
        /\ byteLength' = m.byteLength
        /\ AfterInvoke(m.trap)
    /\ UNCHANGED <<wasm, wasmPtr, resultPtr, outputPtr, outputLen,
                   utf8Decoder, output, calls, constructed, ub>>

\* free_mem(ptr), as a statement of its own followed by the statement at next
Free(ptr, next) ==
    \E f \in free_mem(ptr) :
        /\ trace' = Append(trace, Ev("free_mem", <<ptr>>, IsLive(ptr)))
        /\ live' = f.live
        /\ ub' = (ub \/ f.ub)
        /\ IF f.trap
           THEN Throw("ModuleTrap")
           ELSE pc' = next /\ UNCHANGED <<error, trapped>>

\* free_mem(wasmPtr);
FreeInput ==
    /\ pc = "L25"
    /\ Free(wasmPtr, "L26")
    /\ UNCHANGED <<wasm, memory, byteLength, wasmPtr, resultPtr, outputPtr,
                   outputLen, utf8Decoder, output, calls, constructed>>

\* const resultView = new DataView(memory.buffer, resultPtr, 12);
\* const outputPtr = resultView.getUint32(0, true),
\*       outputLen = resultView.getUint32(4, true);
ReadResult ==
    /\ pc = "L26"
    /\ IF ViewOK(resultPtr, DescriptorSize)
       THEN /\ outputPtr' = getUint32(memory, resultPtr + PtrFieldOffset)
            /\ outputLen' = getUint32(memory, resultPtr + LenFieldOffset)
            /\ trace' = Append(trace,
                               View("read", resultPtr, 2 * LenFieldOffset))
            /\ pc' = "L28"
            /\ UNCHANGED <<error, trapped>>
       ELSE /\ Throw("RangeError")
            /\ UNCHANGED <<outputPtr, outputLen, trace>>
    /\ UNCHANGED <<wasm, memory, byteLength, live, wasmPtr, resultPtr,
                   utf8Decoder, output, calls, constructed, ub>>

\* free_mem(resultPtr); and the statement written with the wrong pointer,
\* free_mem(outputPtr)
FreeResultWrongPtr ==
    /\ pc = "L28"
    /\ Free(outputPtr, "L29")
    /\ UNCHANGED <<wasm, memory, byteLength, wasmPtr, resultPtr, outputPtr,
                   outputLen, utf8Decoder, output, calls, constructed>>
FreeResult ==
    /\ pc = "L28"
    /\ Free(resultPtr, "L29")
    /\ UNCHANGED <<wasm, memory, byteLength, wasmPtr, resultPtr, outputPtr,
                   outputLen, utf8Decoder, output, calls, constructed>>

\* if (utf8Decoder) { utf8Decoder = new TextDecoder("utf-8"); }
InitDecoder ==
    /\ pc = "L29"
    /\ IF utf8Decoder # "undefined"
       THEN utf8Decoder' = "TextDecoder" /\ constructed' = constructed + 1
       ELSE UNCHANGED <<utf8Decoder, constructed>>
    /\ pc' = "L32"
    /\ UNCHANGED <<wasm, memory, byteLength, live, wasmPtr, resultPtr,
                   outputPtr, outputLen, output, error, calls, trace,
                   trapped, ub>>

\* const output = utf8Decoder.decode(new Uint8Array(memory.buffer, outputPtr, outputLen));
\* free_mem(outputPtr);
\* return output;
\* utf8Decoder.decode is looked up before the argument is evaluated: with
\* utf8Decoder undefined the statement throws a TypeError and nothing after
\* it runs.
DecodeAndFree ==
    /\ pc = "L32"
    /\ IF utf8Decoder = "undefined"
       THEN /\ Throw("TypeError")
            /\ trace' = Append(trace, Ev("decode", <<>>, FALSE))
            /\ UNCHANGED <<live, output, ub>>
       ELSE IF ~ViewOK(outputPtr, outputLen)
       THEN /\ Throw("RangeError")
            /\ UNCHANGED <<live, output, ub, trace>>
       ELSE \E f \in free_mem(outputPtr) :
            /\ trace' = trace \o
                 <<View("read", outputPtr, outputLen),
                   Ev("decode", <<>>, TRUE),
                   Ev("free_mem", <<outputPtr>>, IsLive(outputPtr))>>
            /\ live' = f.live
            /\ ub' = (ub \/ f.ub)
            /\ IF f.trap
               THEN Throw("ModuleTrap") /\ UNCHANGED output
               ELSE /\ output' = decode(Load(memory, outputPtr, outputLen))
                    /\ pc' = "returned"
                    /\ UNCHANGED <<error, trapped>>
    /\ UNCHANGED <<wasm, memory, byteLength, wasmPtr, resultPtr, outputPtr,
                   outputLen, utf8Decoder, calls, constructed>>

Next ==
    \/ Call
    \/ AllocInput
    \/ CopyInput
    \/ AllocResult
    \/ InvokeConvert
    \/ FreeInput
    \/ ReadResult
    \/ FreeResult
    \/ InitDecoder
    \/ DecodeAndFree

Spec == Init /\ [][Next]_vars

(***************************************************************************)
(* Vocabulary of the properties.                                           *)
(***************************************************************************)
Events(op) == {i \in 1 .. Len(trace) : trace[i].op = op}
OkEvents(op) == {i \in Events(op) : trace[i].ok}
Ended == pc \in {"returned", "thrown"}

\* offsets of the allocations made during the current call, by the bridge
\* (alloc_mem) and by the entry point (the output region)
CallAllocs ==
    {trace[i].args[2] : i \in OkEvents("alloc_mem") \cup OkEvents("module_alloc")}
Leaked == {a \in live : a.off \in CallAllocs}

\* The failure kind a caller sees.  A RangeError of a view that does not fit
\* the buffer is read as CorruptResult and a trap of the module as
\* ModuleTrap; a TypeError is none of the four kinds.
Kind(e) ==
    CASE e = "RangeError" -> "CorruptResult"
      [] e = "ModuleTrap" -> "ModuleTrap"
      [] OTHER -> e
FailureKinds == {"AllocationFailure", "CorruptResult", "DecodeError", "ModuleTrap"}

RECURSIVE ValidUTF8(_)
ValidUTF8(bytes) ==
    IF bytes = <<>> THEN TRUE
    ELSE LET b == Head(bytes) IN
         IF b < 128 THEN ValidUTF8(Tail(bytes))
         ELSE /\ b >= 194 /\ b <= 223 /\ Len(bytes) >= 2
              /\ bytes[2] >= 128 /\ bytes[2] <= 191
              /\ ValidUTF8(Tail(Tail(bytes)))

FirstReserveFailed ==
    /\ Len(trace) >= 1
    /\ trace[1].op = "alloc_mem" /\ ~trace[1].ok
SecondReserveFailed ==
    /\ Len(trace) >= 3
    /\ trace[1].op = "alloc_mem" /\ trace[1].ok
    /\ trace[3].op = "alloc_mem" /\ ~trace[3].ok
DescriptorRead == Events("read") # {}

\* the statements of convertDwarfToJSON that touch the module, in order
Protocol ==
    <<"alloc_mem", "write", "alloc_mem", "convert_dwarf", "free_mem", "read",
      "free_mem", "decode">>
BridgeOps ==
    SelectSeq([i \in 1 .. Len(trace) |-> trace[i].op],
              LAMBDA o : o \notin {"module_alloc", "module_corrupt"})
IsPrefix(s, t) == Len(s) <= Len(t) /\ \A i \in 1 .. Len(s) : s[i] = t[i]

(***************************************************************************)
(* C1: allocation symmetry.  When a call has ended, in success or in a     *)
(* failure other than ModuleTrap, it made as many free_mem calls as        *)
(* successful alloc_mem calls, and no allocation made during the call is   *)
(* still live.  (Stated for the calls in which no free_mem met an offset   *)
(* that was not live, so that it does not rest on undefined behaviour.)    *)
(***************************************************************************)
C1_AllocationSymmetry ==
    (Ended /\ error # "ModuleTrap" /\ ~ub) =>
        /\ Cardinality(Events("free_mem")) = Cardinality(OkEvents("alloc_mem"))
        /\ Leaked = {}

(***************************************************************************)
(* C2: every free_mem is called with an offset that is live at that        *)
(* moment (so no offset is released twice), and every read or write of     *)
(* the bridge lies inside a live allocation.                               *)
(***************************************************************************)
C2_NoUseAfterRelease ==
    \A i \in 1 .. Len(trace) :
        trace[i].op \in {"free_mem", "read", "write"} => trace[i].ok

(***************************************************************************)
(* C3: when the first reserve fails the call fails with AllocationFailure  *)
(* and does nothing else: no write, no further alloc_mem or free_mem, no   *)
(* call of convert_dwarf.                                                  *)
(***************************************************************************)
C3_FirstReserveFailure ==
    FirstReserveFailed =>
        /\ Len(trace) = 1
        /\ pc \in {"L22", "thrown"}
        /\ pc = "thrown" => Kind(error) = "AllocationFailure"

(***************************************************************************)
(* C4: when the first reserve succeeds and the reserve of the descriptor   *)
(* fails, the input region is released exactly once, the call fails with   *)
(* AllocationFailure, convert_dwarf is not called and no allocation of     *)
(* the call stays live.                                                    *)
(***************************************************************************)
C4_SecondReserveFailure ==
    SecondReserveFailed =>
        /\ Events("convert_dwarf") = {}
        /\ pc \in {"L24", "thrown"}
        /\ pc = "thrown" =>
            /\ Kind(error) = "AllocationFailure"
            /\ Cardinality({i \in Events("free_mem") :
                              trace[i].args = <<wasmPtr>>}) = 1
            /\ Leaked = {}

(***************************************************************************)
(* C5: when the descriptor names a region outside memory.buffer the call   *)
(* fails with CorruptResult, and no region outside the buffer is read.     *)
(* (Stated for the calls whose two reserves succeeded.)                    *)
(***************************************************************************)
C5_CorruptResult ==
    (Ended /\ DescriptorRead /\ ~ViewOK(outputPtr, outputLen)
           /\ error # "ModuleTrap" /\ ~ub) =>
        /\ pc = "thrown" /\ Kind(error) = "CorruptResult"
        /\ \A i \in Events("read") : ViewOK(trace[i].args[1], trace[i].args[2])

(***************************************************************************)
(* C6: when the output bytes are not valid UTF-8 the call fails with       *)
(* DecodeError, and by then the input, descriptor and output regions have  *)
(* all been released.  (Stated for the calls whose two reserves            *)
(* succeeded.)                                                             *)
(***************************************************************************)
C6_DecodeError ==
    (Ended /\ DescriptorRead /\ OkEvents("module_alloc") # {}
           /\ error # "ModuleTrap" /\ ~ub /\ ViewOK(outputPtr, outputLen)
           /\ ~ValidUTF8(Load(memory, outputPtr, outputLen))) =>
        /\ pc = "thrown" /\ Kind(error) = "DecodeError"
        /\ Leaked = {}

(***************************************************************************)
(* C7: the decoder is constructed exactly once, on the first call and      *)
(* before its first use; no call uses the decoder while it is absent.      *)
(***************************************************************************)
C7_DecoderConstructedOnce ==
    /\ \A i \in Events("decode") : trace[i].ok
    /\ pc = "L32" => (utf8Decoder = "TextDecoder" /\ constructed = 1)

(***************************************************************************)
(* C8: sequential calls are independent: a call after the first starts     *)
(* with no allocation of an earlier call still live (earlier calls that    *)
(* trapped or whose reserves failed set aside).                            *)
(***************************************************************************)
C8_SequentialIndependence ==
    (pc = "L21" /\ calls >= 2 /\ ~trapped /\ ~ub) => live = {}

(***************************************************************************)
(* C9: a call ends with the complete decoded text or with one of the four  *)
(* failure kinds.                                                          *)
(***************************************************************************)
C9_TextOrFailureKind ==
    /\ pc = "thrown" => Kind(error) \in FailureKinds
    /\ pc = "returned" =>
           output = decode(Load(memory, outputPtr, outputLen))

(***************************************************************************)
(* C10: empty input is not rejected: a region of size 0 is reserved, the   *)
(* entry point is called with input_length = 0 and the offsets the two     *)
(* reserves returned, the call does not fail before the entry point is     *)
(* called, and the statements run in the same order as for any input.      *)
(***************************************************************************)
C10_EmptyInputForwarded ==
    (pc # "idle" /\ Len(wasm) = 0) =>
        /\ pc # "L21" =>
              /\ Len(trace) >= 1
              /\ trace[1].op = "alloc_mem" /\ trace[1].args[1] = 0
        /\ \A i \in Events("convert_dwarf") :
              trace[i].args = <<wasmPtr, 0, resultPtr, resultPtr + LenFieldOffset>>
        /\ pc = "thrown" => Events("convert_dwarf") # {}
        /\ pc \in {"L25", "L26", "L28", "L29", "L32"} =>
              Events("convert_dwarf") # {}
        /\ IsPrefix(BridgeOps, Protocol)

C10_Witness ==
    /\ pc = "L25" /\ Len(wasm) = 0
    /\ wasmPtr # NULL /\ resultPtr # NULL
    /\ Events("convert_dwarf") # {}

EntryPointTrapped == \E i \in Events("convert_dwarf") : ~trace[i].ok
C12_TrapPropagates ==
    EntryPointTrapped =>
        /\ pc = "thrown" /\ error = "ModuleTrap"
        /\ trace[Len(trace)].op = "convert_dwarf"
        /\ \A i \in OkEvents("alloc_mem") : IsLive(trace[i].args[2])

C12_Witness ==
    /\ EntryPointTrapped
    /\ Cardinality(OkEvents("alloc_mem")) = 2
    /\ IsLive(wasmPtr) /\ IsLive(resultPtr)

(***************************************************************************)
(* C13: when the module produced an output region inside the buffer that   *)
(* holds valid UTF-8, the call returns the text decoded from exactly the   *)
(* outputLen bytes at outputPtr, and the UTF-8 encoding of that text has   *)
(* length outputLen.  (Stated for the calls whose two reserves succeeded.) *)
(***************************************************************************)
RECURSIVE EncodedLength(_)
EncodedLength(text) ==
    IF text = <<>> THEN 0
    ELSE (IF Head(text) < 128 THEN 1 ELSE IF Head(text) < 2048 THEN 2 ELSE 3)
             + EncodedLength(Tail(text))

C13_ReturnsDeclaredOutput ==
    (Ended /\ DescriptorRead /\ OkEvents("module_alloc") # {}
           /\ error # "ModuleTrap" /\ ~ub /\ ViewOK(outputPtr, outputLen)
           /\ ValidUTF8(Load(memory, outputPtr, outputLen))) =>
        /\ pc = "returned"
        /\ output = decode(Load(memory, outputPtr, outputLen))
        /\ EncodedLength(output) = outputLen

(***************************************************************************)
(* C14: in a call whose two reserves succeeded and whose entry point       *)
(* returned, the bridge reserves the input, writes it, reserves the        *)
(* descriptor, calls the entry point, releases the input, reads the        *)
(* descriptor, releases the descriptor, reads the output and releases the  *)
(* output, in this order and each once.  (Stated for the calls in which    *)
(* the entry point returned an output region of its own.)                  *)
(***************************************************************************)
FullProtocol ==
    <<"alloc_mem", "write", "alloc_mem", "convert_dwarf", "free_mem", "read",
      "free_mem", "read", "free_mem">>
MemoryOps == SelectSeq(BridgeOps, LAMBDA o : o # "decode")
BothReservesSucceeded == Cardinality(OkEvents("alloc_mem")) = 2

C14_EventOrder ==
    (BothReservesSucceeded /\ OkEvents("module_alloc") # {}) =>
        /\ IsPrefix(MemoryOps, FullProtocol)
        /\ (Ended /\ error # "ModuleTrap") => MemoryOps = FullProtocol

Released ==
    [i \in 1 .. Cardinality(Events("free_mem")) |->
        trace[CHOOSE j \in Events("free_mem") :
                Cardinality({k \in Events("free_mem") : k < j}) = i - 1].args[1]]
Accesses == Events("write") \cup Events("read")
LastModuleCall(i) ==
    CHOOSE j \in Events("alloc_mem") \cup Events("convert_dwarf") :
        /\ j < i
        /\ \A k \in Events("alloc_mem") \cup Events("convert_dwarf") :
               k < i => k <= j
C16_FreshViews ==
    \A i \in Accesses :
        /\ \E j \in Events("alloc_mem") \cup Events("convert_dwarf") : j < i
        /\ trace[i].buf = trace[LastModuleCall(i)].buf

\* the buffer was replaced between the first reserve and the read of the
\* descriptor
C16_Witness ==
    \E i \in Events("read") : trace[i].buf # trace[1].buf

(***************************************************************************)
(* C17: in a call whose two reserves succeeded, the entry point is called  *)
(* exactly once, with the offset the first reserve returned, the length of *)
(* the input, the offset the second reserve returned, and that offset + 4. *)
(***************************************************************************)
C17_InvokeArguments ==
    BothReservesSucceeded =>
        /\ Cardinality(Events("convert_dwarf")) = (IF pc = "L24" THEN 0 ELSE 1)
        /\ \A i \in Events("convert_dwarf") :
              trace[i].args = <<trace[1].args[2], Len(wasm), trace[3].args[2],
                                trace[3].args[2] + 4>>

C17_Witness ==
    /\ BothReservesSucceeded
    /\ pc = "L25"
    /\ Len(wasm) = 1
    /\ Events("convert_dwarf") # {}

(***************************************************************************)
(* C18: outputPtr is the little-endian value of descriptor bytes 0..3 and  *)
(* outputLen that of bytes 4..7: the four bytes in memory are the value's  *)
(* base-256 digits, lowest first, and the values are those the entry       *)
(* point wrote; bytes 8..11 have no part in either.  (Fields below 2^31.)  *)
(***************************************************************************)
Digits(v) ==
    <<v % 256, (v \div 256) % 256, (v \div 65536) % 256, v \div 16777216>>
Declared ==
    LET i == CHOOSE k \in Events("module_alloc") \cup Events("module_corrupt") :
                 TRUE
    IN IF trace[i].op = "module_alloc"
       THEN <<trace[i].args[2], trace[i].args[1]>>
       ELSE <<trace[i].args[1], trace[i].args[2]>>
C19_RegionsLiveAtInvoke ==
    pc = "L24" =>
        /\ IsLive(wasmPtr) /\ IsLive(resultPtr)
        /\ Load(memory, wasmPtr, Len(wasm)) = wasm

(***************************************************************************)
(* C20: the bridge writes memory in one statement only, the copy of the    *)
(* input, and the bytes it changes lie in [p, p + len(input)), p being     *)
(* what the first reserve returned; every other change of memory is the    *)
(* entry point's.                                                          *)
(***************************************************************************)
WritesAreTheInputCopy ==
    /\ Cardinality(Events("write")) <= 1
    /\ \A i \in Events("write") :
          trace[i].args = <<trace[1].args[2], Len(wasm)>>
C20_BridgeWritesOnlyInput ==
    [][/\ memory' # memory =>
            \/ pc = "L24"
            \/ /\ pc = "L22"
               /\ wasmPtr = trace[1].args[2]
               /\ \A a \in Addr :
                     memory'[a] # memory[a] =>
                         (a >= wasmPtr /\ a < wasmPtr + Len(wasm))
       /\ WritesAreTheInputCopy']_vars

C20_Witness ==
    /\ pc = "L23"
    /\ wasmPtr # NULL
    /\ Len(wasm) = 1 /\ memory[wasmPtr] = wasm[1]
    /\ Events("write") # {}

=============================================================================
